---- MODULE Spec2Model ----
(***************************************************************************)
(* User Service / Post Service replication over the user_events queue.     *)
(*                                                                         *)
(* The User Service (userController.js: signup, deleteUser, publishMessage,*)
(* connectQueue) mutates the user store and publishes an event; the Post   *)
(* Service (rabbitmq.js: consumeMessages, handleUserEvent) consumes the    *)
(* events and applies them to its shadow user store.  Every `await` of the *)
(* source is a step boundary: a request is a process whose pc names the    *)
(* call it is suspended on.  Strings are tuples of one-character strings.  *)
(***************************************************************************)
EXTENDS Integers, Sequences, FiniteSets, Bags, TLC

\* ------------------------------------------------------------------ bounds
MaxReqs == 2        \* HTTP requests the User Service receives in a run
MaxExternal == 2    \* messages put on the queue by others than publishMessage
MaxPosts == 2       \* Post documents the Post Service store comes to hold
MaxViews == 1       \* view-count increments a Post receives

\* ------------------------------------------------------- program constants
NameMin == 3
NameMax == 15
PasswordMin == 6
PasswordMax == 15

\* ------------------------------------------------------- request payloads
\* A JSON value of a request body: a string, a number, or an absent field.
Str(s) == [t |-> "string", s |-> s]
Num == [t |-> "number", s |-> <<"1", "2", "3">>]
Undefined == [t |-> "undefined", s |-> <<"u", "n", "d", "e", "f", "i", "n", "e", "d">>]

Letters == {"a", "b", "c", "d", "e", "f", "i", "l", "n", "o", "u", "y"}
Digits == {"1", "2", "3"}
WhiteSpace == {" "}

\* JS truthiness of a value (`!email`).
Truthy(v) == v.t = "number" \/ (v.t = "string" /\ Len(v.s) > 0)

\* The characters of String(v), which RegExp.prototype.test matches against.
JsString(v) == v.s

Contains(s, c) == \E k \in 1..Len(s) : s[k] = c

\* /^[^\s@]+@[^\s@]+\.[^\s@]+$/ : one "@", no white space, a non-empty local
\* part, and a "." after the "@" with at least one character on each side.
EmailPattern(s) ==
    \E i \in 2..Len(s) :
        /\ s[i] = "@"
        /\ \A k \in 1..Len(s) : k # i => s[k] \notin (WhiteSpace \cup {"@"})
        /\ \E j \in (i + 2)..(Len(s) - 1) : s[j] = "."

isValidEmail(v) == EmailPattern(JsString(v))

\* typeof name === "string" && name.length >= 3 && name.length <= 15
isValidName(v) == v.t = "string" /\ Len(v.s) >= NameMin /\ Len(v.s) <= NameMax

\* /^(?=.*[a-zA-Z])(?=.*\d)(?=.*[\W_]).{6,15}$/
PasswordPattern(s) ==
    /\ \E k \in 1..Len(s) : s[k] \in Letters
    /\ \E k \in 1..Len(s) : s[k] \in Digits
    /\ \E k \in 1..Len(s) : s[k] \notin (Letters \cup Digits)
    /\ Len(s) >= PasswordMin
    /\ Len(s) <= PasswordMax

isValidPassword(v) == PasswordPattern(JsString(v))

\* The validation prefix of signup: which return (or throw) the body reaches.
\* `email.includes` exists on strings only: a truthy non-string email throws
\* a TypeError inside the try block.
Validate(b) ==
    IF ~Truthy(b.email) THEN "bad_email"
    ELSE IF b.email.t # "string" THEN "throw"
    ELSE IF ~Contains(b.email.s, "@") \/ ~isValidEmail(b.email) THEN "bad_email"
    ELSE IF ~isValidName(b.name) THEN "bad_name"
    ELSE IF ~isValidPassword(b.password) THEN "bad_password"
    ELSE "ok"

Alice == <<"a", "l", "i", "c", "e">>
Bobby == <<"b", "o", "b", "b", "y">>
Long16 == <<"a", "a", "a", "a", "a", "a", "a", "a", "a", "a", "a", "a", "a", "a", "a", "a">>
Long15 == <<"a", "a", "a", "a", "a", "a", "a", "a", "a", "a", "a", "a", "a", "a", "a">>
MailA == <<"a", "@", "b", ".", "c">>
MailB == <<"b", "@", "b", ".", "c">>
GoodPw == <<"a", "b", "c", "1", "2", "!">>

Body(e, n, p) == [email |-> e, name |-> n, password |-> p]

\* Request bodies a client can POST to /signup.  1..3 pass validation.
Payloads == <<
    Body(Str(MailA), Str(Alice), Str(GoodPw)),                       \* 1
    Body(Str(MailB), Str(Alice), Str(GoodPw)),                       \* 2 same name
    Body(Str(MailB), Str(Bobby), Str(<<"a", "1", "_", "a", "a", "a">>)), \* 3
    Body(Undefined, Str(Alice), Str(GoodPw)),                        \* 4 no email
    Body(Str(<<>>), Str(Alice), Str(GoodPw)),                        \* 5 ""
    Body(Num, Str(Alice), Str(GoodPw)),                              \* 6 email: 123
    Body(Str(<<"a", "b", ".", "c">>), Str(Alice), Str(GoodPw)),      \* 7 no "@"
    Body(Str(<<"a", "@", "b", "c">>), Str(Alice), Str(GoodPw)),      \* 8 no "."
    Body(Str(<<"a", "@", ".", "c">>), Str(Alice), Str(GoodPw)),      \* 9 "a@.c"
    Body(Str(<<"a", " ", "@", "b", ".", "c">>), Str(Alice), Str(GoodPw)), \* 10
    Body(Str(MailA), Str(<<"a", "l">>), Str(GoodPw)),                \* 11 short
    Body(Str(MailA), Str(Long16), Str(GoodPw)),                      \* 12 long
    Body(Str(MailA), Num, Str(GoodPw)),                              \* 13 name: 123
    Body(Str(MailA), Undefined, Str(GoodPw)),                        \* 14 no name
    Body(Str(MailA), Str(Alice), Str(<<"a", "b", "c", "1", "2", "3">>)), \* 15
    Body(Str(MailA), Str(Alice), Str(<<"a", "1", "!">>)),            \* 16 short
    Body(Str(MailA), Str(Alice), Str(Long16 \o <<"1", "!">>)),       \* 17 long
    Body(Str(MailA), Str(Alice), Undefined),                         \* 18 none
    Body(Str(MailA), Str(Long15), Str(GoodPw))                       \* 19 valid
>>

AllPayloads == 1..Len(Payloads)
CorePayloads == {1, 2, 6}

\* ------------------------------------------------------------------- state
VARIABLES
    users,          \* User Service store: set of [id, email, name]
    nextId,         \* next fresh _id the store hands out
    created,        \* history: every record UserModal.create has returned
    reqs,           \* HTTP requests: [kind, pc, arg, uid] per request number
    res,            \* the last HTTP response written: [op, status, msg]
    uConnection,    \* userController.js `connection` (0: undefined)
    uChannel,       \* userController.js `channel` (0: undefined)
    closedCh,       \* channels of the User Service that are closed
    queueDeclared,  \* the broker has a queue named user_events
    queue,          \* ready messages of user_events: Seq of [mid, body]
    nmsg,           \* messages the broker has enqueued so far
    published,      \* history: every body the broker has enqueued
    sent,           \* history: bag of bodies passed to channel.sendToQueue
    nExternal,      \* messages enqueued by others than publishMessage
    cpc,            \* Post Service: position of consumeMessages
    pConnection,    \* rabbitmq.js `connection` is set
    pChannel,       \* rabbitmq.js `channel` is set
    pending,        \* handler calls suspended on their store operation
    shadow,         \* Post Service shadow store: set of [id, email, name]
    log,            \* what finished handler calls did: [mid, event, userId, out, found, refs]
    posts           \* Post Service Post collection: set of [id, userId, views]

userVars == <<users, nextId, created>>
chanVars == <<uConnection, uChannel, closedCh>>
queueVars == <<queueDeclared, queue, nmsg, published>>
consVars == <<cpc, pConnection, pChannel, pending, shadow, log, posts>>
vars == <<users, nextId, created, reqs, res, uConnection, uChannel, closedCh,
          queueDeclared, queue, nmsg, published, sent, nExternal, cpc,
          pConnection, pChannel, pending, shadow, log, posts>>

Reqs == 1..MaxReqs
Idle == [kind |-> "none", pc |-> "idle", arg |-> 0, uid |-> 0]
Done == [kind |-> "none", pc |-> "done", arg |-> 0, uid |-> 0]
NoRes == [op |-> "none", status |-> 0, msg |-> ""]

Init ==
    /\ users = {}
    /\ nextId = 1
    /\ created = {}
    /\ reqs = [r \in Reqs |-> Idle]
    /\ res = NoRes
    /\ uConnection = 0
    /\ uChannel = 0
    /\ closedCh = {}
    /\ queueDeclared = FALSE
    /\ queue = <<>>
    /\ nmsg = 0
    /\ published = {}
    /\ sent = EmptyBag
    /\ nExternal = 0
    /\ cpc = "connect"
    /\ pConnection = FALSE
    /\ pChannel = FALSE
    /\ pending = {}
    /\ shadow = {}
    /\ log = {}
    /\ posts = {}

\* ------------------------------------------------------------ User Service
\* res.status(code).json({message}) followed by the handler's return.
Respond(r, op, status, msg) ==
    /\ reqs' = [reqs EXCEPT ![r] = Done]
    /\ res' = [op |-> op, status |-> status, msg |-> msg]

\* The catch block of signup / deleteUser.
InternalError(r) == Respond(r, reqs[r].kind, 500, "Something went wrong")

\* Requests are numbered in arrival order.
Arrives(r) == reqs[r].pc = "idle" /\ \A q \in 1..(r - 1) : reqs[q].pc # "idle"

PasswordMessage ==
    "Password must be between 6 and 15 characters long, include at least one letter, one number, and one special character"

\* signup up to its first store call: validation, then findOne({email}).
SignupRequest(r, p, ok) ==
    /\ Arrives(r)
    /\ LET b == Payloads[p]
           v == Validate(b)
       IN  IF v = "throw"
             THEN Respond(r, "signup", 500, "Something went wrong")
           ELSE IF v = "bad_email"
             THEN Respond(r, "signup", 400, "Invalid email format")
           ELSE IF v = "bad_name"
             THEN Respond(r, "signup", 400, "Name must be between 3 and 15 characters long")
           ELSE IF v = "bad_password"
             THEN Respond(r, "signup", 400, PasswordMessage)
           ELSE IF ~ok
             THEN Respond(r, "signup", 500, "Something went wrong")
           ELSE IF \E u \in users : u.email = b.email.s
             THEN Respond(r, "signup", 400, "User with this email already exists")
           ELSE /\ reqs' = [reqs EXCEPT ![r] =
                        [kind |-> "signup", pc |-> "findName", arg |-> p, uid |-> 0]]
                /\ UNCHANGED res
    /\ UNCHANGED <<userVars, chanVars, queueVars, sent, nExternal, consVars>>

\* Mutant of SignupFindName: the `if (existingUserByName)` return is missing.
SignupFindNameNoCheck(r, ok) ==
    /\ reqs[r].kind = "signup" /\ reqs[r].pc = "findName"
    /\ IF ~ok
         THEN InternalError(r)
         ELSE reqs' = [reqs EXCEPT ![r].pc = "create"] /\ UNCHANGED res
    /\ UNCHANGED <<userVars, chanVars, queueVars, sent, nExternal, consVars>>

\* await UserModal.findOne({ name })
SignupFindName(r, ok) ==
    /\ reqs[r].kind = "signup" /\ reqs[r].pc = "findName"
    /\ IF ~ok
         THEN InternalError(r)
       ELSE IF \E u \in users : u.name = Payloads[reqs[r].arg].name.s
         THEN Respond(r, "signup", 400, "User with this name already exists")
       ELSE reqs' = [reqs EXCEPT ![r].pc = "create"] /\ UNCHANGED res
    /\ UNCHANGED <<userVars, chanVars, queueVars, sent, nExternal, consVars>>

\* await bcrypt.hash(...); await UserModal.create({email, password, name}).
\* The schema declares email unique, so a second record with the same email
\* is refused by the store (duplicate key).
SignupCreate(r, ok) ==
    /\ reqs[r].kind = "signup" /\ reqs[r].pc = "create"
    /\ LET b == Payloads[reqs[r].arg]
           u == [id |-> nextId, email |-> b.email.s, name |-> b.name.s]
       IN  IF ~ok \/ (\E x \in users : x.email = u.email)
             THEN InternalError(r) /\ UNCHANGED userVars
           ELSE /\ users' = users \cup {u}
                /\ nextId' = nextId + 1
                /\ created' = created \cup {u}
                /\ reqs' = [reqs EXCEPT ![r].pc = "publish", ![r].uid = u.id]
                /\ UNCHANGED res
    /\ UNCHANGED <<chanVars, queueVars, sent, nExternal, consVars>>

\* Mutant of DeleteRequest: the `if (!user)` return is missing.
DeleteRequestNoLookup(r, id, ok) ==
    /\ Arrives(r)
    /\ IF ~ok
         THEN Respond(r, "deleteUser", 500, "Something went wrong")
         ELSE /\ reqs' = [reqs EXCEPT ![r] =
                      [kind |-> "deleteUser", pc |-> "delete", arg |-> id, uid |-> 0]]
              /\ UNCHANGED res
    /\ UNCHANGED <<userVars, chanVars, queueVars, sent, nExternal, consVars>>

\* deleteUser up to its first store call: findById(id).
DeleteRequest(r, id, ok) ==
    /\ Arrives(r)
    /\ IF ~ok
         THEN Respond(r, "deleteUser", 500, "Something went wrong")
       ELSE IF ~(\E u \in users : u.id = id)
         THEN Respond(r, "deleteUser", 404, "User not found")
       ELSE /\ reqs' = [reqs EXCEPT ![r] =
                    [kind |-> "deleteUser", pc |-> "delete", arg |-> id, uid |-> 0]]
            /\ UNCHANGED res
    /\ UNCHANGED <<userVars, chanVars, queueVars, sent, nExternal, consVars>>

\* Mutant of DeleteUser: findByIdAndDelete is not awaited, so the handler
\* goes on to publish while the record is still in the store.
DeleteUserNotAwaited(r, ok) ==
    /\ reqs[r].kind = "deleteUser" /\ reqs[r].pc = "delete"
    /\ IF ~ok
         THEN InternalError(r)
         ELSE reqs' = [reqs EXCEPT ![r].pc = "publish"] /\ UNCHANGED res
    /\ UNCHANGED <<userVars, chanVars, queueVars, sent, nExternal, consVars>>

\* await UserModal.findByIdAndDelete(id): no error when the record is gone.
DeleteUser(r, ok) ==
    /\ reqs[r].kind = "deleteUser" /\ reqs[r].pc = "delete"
    /\ IF ~ok
         THEN InternalError(r) /\ UNCHANGED userVars
       ELSE /\ users' = {u \in users : u.id # reqs[r].arg}
            /\ reqs' = [reqs EXCEPT ![r].pc = "publish"]
            /\ UNCHANGED <<nextId, created, res>>
    /\ UNCHANGED <<chanVars, queueVars, sent, nExternal, consVars>>

\* Mutant of SignupEvent: the message is built without the name field.
SignupEventWithoutName(id, email, name) ==
    [json |-> TRUE, event |-> "user_signup", userId |-> id, email |-> email, name |-> <<>>]

\* The message object signup / deleteUser hands to publishMessage, as the
\* consumer decodes it (JSON.stringify drops the fields that are undefined).
SignupEvent(id, email, name) ==
    [json |-> TRUE, event |-> "user_signup", userId |-> id, email |-> email, name |-> name]
DeleteEvent(id) ==
    [json |-> TRUE, event |-> "user_delete", userId |-> id, email |-> <<>>, name |-> <<>>]

Message(r) ==
    IF reqs[r].kind = "signup"
      THEN SignupEvent(reqs[r].uid, Payloads[reqs[r].arg].email.s,
                       Payloads[reqs[r].arg].name.s)
      ELSE DeleteEvent(reqs[r].arg)

SuccessResponse(r) ==
    IF reqs[r].kind = "signup"
      THEN Respond(r, "signup", 201, "result")
      ELSE Respond(r, "deleteUser", 200, "User deleted successfully")

\* The broker's part of a publish to the default exchange with routing key
\* user_events.  Every channel the services publish on has declared the queue
\* before (see CreateChannel), so the message is enqueued.
Route(body) ==
    /\ queue' = Append(queue, [mid |-> nmsg + 1, body |-> body])
    /\ nmsg' = nmsg + 1
    /\ published' = published \cup {body}

\* channel.sendToQueue(queueName, ...) on channel c, then the rest of the
\* handler.  A closed channel throws; the catch block answers 500.
SendToQueue(r, c) ==
    IF c \in closedCh
      THEN InternalError(r) /\ UNCHANGED <<queue, nmsg, published, sent>>
      ELSE /\ sent' = sent (+) SetToBag({Message(r)})
           /\ Route(Message(r))
           /\ SuccessResponse(r)

\* publishMessage: `if (!channel)` and, with a channel, the send.
Publish(r) ==
    /\ reqs[r].pc = "publish"
    /\ IF uChannel = 0
         THEN /\ reqs' = [reqs EXCEPT ![r].pc = "connect"]
              /\ UNCHANGED <<res, queue, nmsg, published, sent>>
         ELSE SendToQueue(r, uChannel)
    /\ UNCHANGED <<userVars, chanVars, queueDeclared, nExternal, consVars>>

\* connectQueue: connection = await amqp.connect(url)
Connect(r, ok) ==
    /\ reqs[r].pc = "connect"
    /\ IF ok
         THEN /\ uConnection' = r
              /\ reqs' = [reqs EXCEPT ![r].pc = "createChannel"]
              /\ UNCHANGED res
         ELSE InternalError(r) /\ UNCHANGED uConnection
    /\ UNCHANGED <<userVars, uChannel, closedCh, queueVars, sent, nExternal, consVars>>

\* connectQueue: channel = await connection.createChannel(), and in the same
\* turn the call channel.assertQueue("user_events").  The queue.declare frame
\* is therefore the first frame of the channel, and the broker handles the
\* frames of a channel in order: whatever is sent on the channel afterwards
\* finds the queue declared.
CreateChannel(r, ok) ==
    /\ reqs[r].pc = "createChannel"
    /\ IF ok
         THEN /\ uChannel' = r
              /\ queueDeclared' = TRUE
              /\ reqs' = [reqs EXCEPT ![r].pc = "assertQueue"]
              /\ UNCHANGED res
         ELSE InternalError(r) /\ UNCHANGED <<uChannel, queueDeclared>>
    /\ UNCHANGED <<userVars, uConnection, closedCh, queue, nmsg, published, sent,
                   nExternal, consVars>>

\* connectQueue: the reply to assertQueue arrives; return channel; then
\* publishMessage assigns the returned channel and sends on it.  The await
\* rejects when the channel it was issued on is closed before the reply.
AssertQueue(r, ok) ==
    /\ reqs[r].pc = "assertQueue"
    /\ IF ok /\ r \notin closedCh
         THEN /\ SendToQueue(r, uChannel)
              /\ UNCHANGED closedCh
         ELSE /\ closedCh' = closedCh \cup {r}
              /\ InternalError(r)
              /\ UNCHANGED <<queue, nmsg, published, sent>>
    /\ UNCHANGED <<userVars, uConnection, uChannel, queueDeclared, nExternal, consVars>>

\* The broker or the network closes the channel the User Service holds.
ChannelClose ==
    /\ uChannel # 0 /\ uChannel \notin closedCh
    /\ closedCh' = closedCh \cup {uChannel}
    /\ UNCHANGED <<userVars, reqs, res, uConnection, uChannel, queueVars, sent,
                   nExternal, consVars>>

\* ------------------------------------------------------------------ broker
\* Message bodies no publishMessage call produces.
Unparseable == [json |-> FALSE, event |-> "", userId |-> 0, email |-> <<>>, name |-> <<>>]
NoEventField == [json |-> TRUE, event |-> "undefined", userId |-> 1, email |-> MailA, name |-> Alice]
UnknownTag == [json |-> TRUE, event |-> "user_update", userId |-> 1, email |-> MailA, name |-> Alice]
MalformedBodies == {Unparseable, NoEventField, UnknownTag}

\* Another client of the broker publishes to user_events.
ExternalPublish(b) ==
    /\ nExternal < MaxExternal
    /\ queueDeclared
    /\ nExternal' = nExternal + 1
    /\ Route(b)
    /\ UNCHANGED <<userVars, reqs, res, chanVars, queueDeclared, sent, consVars>>

\* At-least-once delivery: the broker holds a second copy of a ready message.
Duplicate(i) ==
    /\ nExternal < MaxExternal
    /\ i \in DOMAIN queue
    /\ nExternal' = nExternal + 1
    /\ Route(queue[i].body)
    /\ UNCHANGED <<userVars, reqs, res, chanVars, queueDeclared, sent, consVars>>

\* ------------------------------------------------------------ Post Service
\* Mutant of ConsumerConnect: a reconnect loop, the connect is attempted again
\* after a failed start-up.
ConsumerConnectAgain(ok) ==
    /\ cpc \in {"connect", "failed"}
    /\ IF ok THEN pConnection' = TRUE /\ cpc' = "createChannel"
             ELSE cpc' = "failed" /\ UNCHANGED pConnection
    /\ UNCHANGED <<userVars, reqs, res, chanVars, queueVars, sent, nExternal,
                   pChannel, pending, shadow, log, posts>>

\* consumeMessages -> connectQueue: connection = await amqp.connect(url).
\* A rejection is caught by consumeMessages and logged; nothing retries.
ConsumerConnect(ok) ==
    /\ cpc = "connect"
    /\ IF ok THEN pConnection' = TRUE /\ cpc' = "createChannel"
             ELSE cpc' = "failed" /\ UNCHANGED pConnection
    /\ UNCHANGED <<userVars, reqs, res, chanVars, queueVars, sent, nExternal,
                   pChannel, pending, shadow, log, posts>>

\* connectQueue: channel = await connection.createChannel()
ConsumerCreateChannel(ok) ==
    /\ cpc = "createChannel"
    /\ IF ok THEN pChannel' = TRUE /\ cpc' = "assertQueue"
             ELSE cpc' = "failed" /\ UNCHANGED pChannel
    /\ UNCHANGED <<userVars, reqs, res, chanVars, queueVars, sent, nExternal,
                   pConnection, pending, shadow, log, posts>>

\* connectQueue: await channel.assertQueue("user_events"); then
\* consumeMessages registers the callback with channel.consume.
ConsumerAssertQueue(ok) ==
    /\ cpc = "assertQueue"
    /\ IF ok THEN queueDeclared' = TRUE /\ cpc' = "subscribed"
             ELSE cpc' = "failed" /\ UNCHANGED queueDeclared
    /\ UNCHANGED <<userVars, reqs, res, chanVars, queue, nmsg, published, sent,
                   nExternal, pConnection, pChannel, pending, shadow, log, posts>>

\* A finished handler call: console.log / console.error of handleUserEvent
\* (`found`: whether findOneAndDelete matched a document; `refs`: the Post
\* documents whose userId is the event's userId at that moment).
Entry(m, out, found) ==
    [mid |-> m.mid, event |-> m.body.event, userId |-> m.body.userId,
     out |-> out, found |-> found,
     refs |-> Cardinality({q \in posts : q.userId = m.body.userId})]

\* handleUserEvent up to its first await: the store call it issues, if any.
IssuesStoreCall(body) == body.event \in {"user_signup", "user_delete"}

\* The consume callback on the head of the queue: JSON.parse, handler(content)
\* (not awaited: it returns at its first await), channel.ack(message).
\* JSON.parse throwing leaves the callback before the ack: the exception
\* reaches the client library, which ends the connection (`alive`) or, with no
\* error listener registered, the process; the broker keeps the message.
Deliver(alive) ==
    /\ cpc = "subscribed"
    /\ queue # <<>>
    /\ LET m == Head(queue)
       IN  IF ~m.body.json
             THEN /\ cpc' = IF alive THEN "closed" ELSE "crashed"
                  /\ pending' = IF alive THEN pending ELSE {}
                  /\ UNCHANGED <<queue, log>>
           ELSE /\ queue' = Tail(queue)
                /\ IF IssuesStoreCall(m.body)
                     THEN pending' = pending \cup {m} /\ UNCHANGED log
                     ELSE log' = log \cup {Entry(m, "ignored", FALSE)} /\ UNCHANGED pending
                /\ UNCHANGED cpc
    /\ UNCHANGED <<userVars, reqs, res, chanVars, queueDeclared, nmsg, published,
                   sent, nExternal, pConnection, pChannel, shadow, posts>>

\* Mutant of ShadowRecord: the document is created without the email.
ShadowRecordNoEmail(body) == [id |-> body.userId, email |-> <<>>, name |-> body.name]

ShadowRecord(body) == [id |-> body.userId, email |-> body.email, name |-> body.name]

\* await UserModel.create({ _id: userId, email, name }): the store refuses a
\* second document with the same _id; the catch block logs the error.
ShadowCreate(m, ok) ==
    /\ IF ~ok \/ (\E x \in shadow : x.id = m.body.userId)
         THEN log' = log \cup {Entry(m, "error", FALSE)} /\ UNCHANGED shadow
         ELSE /\ shadow' = shadow \cup {ShadowRecord(m.body)}
              /\ log' = log \cup {Entry(m, "created", FALSE)}
    /\ UNCHANGED posts

\* Mutant of ShadowDelete: a delete that matches no document is an error.
ShadowDeleteStrict(m, ok) ==
    /\ IF ~ok \/ ~(\E x \in shadow : x.id = m.body.userId)
         THEN log' = log \cup {Entry(m, "error", FALSE)} /\ UNCHANGED shadow
         ELSE /\ shadow' = {x \in shadow : x.id # m.body.userId}
              /\ log' = log \cup {Entry(m, "deleted", TRUE)}
    /\ UNCHANGED posts

\* Mutant of ShadowDelete: the branch also removes the user's posts.
ShadowDeleteCascade(m, ok) ==
    IF ~ok
      THEN log' = log \cup {Entry(m, "error", FALSE)} /\ UNCHANGED <<shadow, posts>>
      ELSE /\ shadow' = {x \in shadow : x.id # m.body.userId}
           /\ posts' = {q \in posts : q.userId # m.body.userId}
           /\ log' = log \cup {Entry(m, "deleted", \E x \in shadow : x.id = m.body.userId)}

\* await UserModel.findOneAndDelete({ _id: userId }): null when none matches.
ShadowDelete(m, ok) ==
    /\ IF ~ok
         THEN log' = log \cup {Entry(m, "error", FALSE)} /\ UNCHANGED shadow
         ELSE /\ shadow' = {x \in shadow : x.id # m.body.userId}
              /\ log' = log \cup {Entry(m, "deleted", \E x \in shadow : x.id = m.body.userId)}
    /\ UNCHANGED posts

\* A suspended handler call resumes: its store operation took effect or threw.
Apply(m, ok) ==
    /\ cpc \in {"subscribed", "closed"}
    /\ m \in pending
    /\ IF m.body.event = "user_signup" THEN ShadowCreate(m, ok) ELSE ShadowDelete(m, ok)
    /\ pending' = pending \ {m}
    /\ UNCHANGED <<userVars, reqs, res, chanVars, queueVars, sent, nExternal,
                   cpc, pConnection, pChannel>>

\* The Post Service process dies: store calls not yet made are never made.
Crash ==
    /\ cpc = "subscribed"
    /\ cpc' = "crashed"
    /\ pending' = {}
    /\ UNCHANGED <<userVars, reqs, res, chanVars, queueVars, sent, nExternal,
                   pConnection, pChannel, shadow, log, posts>>

\* -------------------------------------------------- Post Service documents
\* The user ids Post documents refer to (postSchema: userId, ref "User").
PostAuthors == {1, 2}

\* A Post document enters the collection.  No route of postRoutes.js creates
\* one; documents are written to the collection independently of the events.
InsertPost(uid) ==
    /\ Cardinality(posts) < MaxPosts
    /\ posts' = posts \cup {[id |-> Cardinality(posts) + 1, userId |-> uid, views |-> 0]}
    /\ UNCHANGED <<userVars, reqs, res, chanVars, queueVars, sent, nExternal,
                   cpc, pConnection, pChannel, pending, shadow, log>>

\* PATCH /posts/:id/view -> incrementViews.  The GET routes of the router
\* read the collection and change nothing.
IncrementViews(q) ==
    /\ q \in posts
    /\ q.views < MaxViews
    /\ posts' = (posts \ {q}) \cup {[q EXCEPT !.views = q.views + 1]}
    /\ UNCHANGED <<userVars, reqs, res, chanVars, queueVars, sent, nExternal,
                   cpc, pConnection, pChannel, pending, shadow, log>>

\* ---------------------------------------------------------- specifications
Ids == 1..MaxReqs

UserService(P, F) ==
    \/ \E r \in Reqs, p \in P, ok \in F : SignupRequest(r, p, ok)
    \/ \E r \in Reqs, ok \in F : SignupFindName(r, ok)
    \/ \E r \in Reqs, ok \in F : SignupCreate(r, ok)
    \/ \E r \in Reqs, id \in Ids, ok \in F : DeleteRequest(r, id, ok)
    \/ \E r \in Reqs, ok \in F : DeleteUser(r, ok)
    \/ \E r \in Reqs : Publish(r)
    \/ \E r \in Reqs, ok \in F : Connect(r, ok)
    \/ \E r \in Reqs, ok \in F : CreateChannel(r, ok)
    \/ \E r \in Reqs, ok \in F : AssertQueue(r, ok)

PostService(F) ==
    \/ \E ok \in F : ConsumerConnect(ok)
    \/ \E ok \in F : ConsumerCreateChannel(ok)
    \/ \E ok \in F : ConsumerAssertQueue(ok)
    \/ \E alive \in BOOLEAN : Deliver(alive)
    \/ \E m \in pending, ok \in F : Apply(m, ok)

Faults ==
    \/ ChannelClose
    \/ Crash
    \/ \E b \in MalformedBodies : ExternalPublish(b)
    \/ \E i \in DOMAIN queue : Duplicate(i)

\* Both services with every failure the code has a path for.
Next == UserService(CorePayloads, BOOLEAN) \/ PostService(BOOLEAN) \/ Faults
Spec == Init /\ [][Next]_vars

\* Both services with the store and the broker never failing, no other
\* publisher, no duplicate delivery and no crash.
ReliableNext == UserService(CorePayloads, {TRUE}) \/ PostService({TRUE})
ReliableSpec == Init /\ [][ReliableNext]_vars

\* The steps the two processes take on their own once a request has arrived:
\* the event loop resumes every continuation whose await has settled, and the
\* broker pushes every ready message to a subscribed consumer.
ReliableProgress ==
    \/ \E r \in Reqs : SignupFindName(r, TRUE)
    \/ \E r \in Reqs : SignupCreate(r, TRUE)
    \/ \E r \in Reqs : DeleteUser(r, TRUE)
    \/ \E r \in Reqs : Publish(r)
    \/ \E r \in Reqs : Connect(r, TRUE)
    \/ \E r \in Reqs : CreateChannel(r, TRUE)
    \/ \E r \in Reqs : AssertQueue(r, TRUE)
    \/ PostService({TRUE})
FairReliableSpec == ReliableSpec /\ WF_vars(ReliableProgress)

\* The User Service alone, with every request body of Payloads.
UserNext == UserService(AllPayloads, BOOLEAN) \/ ChannelClose
UserSpec == Init /\ [][UserNext]_vars

\* The User Service alone with the request bodies of CorePayloads.
UserCoreNext == UserService(CorePayloads, BOOLEAN) \/ ChannelClose
UserCoreSpec == Init /\ [][UserCoreNext]_vars

\* The Post Service alone, fed by a publisher that may send any body.
EventBodies ==
    MalformedBodies \cup {SignupEvent(1, MailA, Alice), DeleteEvent(1), DeleteEvent(2)}
PostNext ==
    \/ PostService(BOOLEAN)
    \/ Crash
    \/ \E b \in EventBodies : ExternalPublish(b)
    \/ \E i \in DOMAIN queue : Duplicate(i)
PostSpec == Init /\ [][PostNext]_vars

\* The Post Service with its Post collection: the consumer fed with the two
\* events of user 1, Post documents arriving and being viewed.
PostDocsNext ==
    \/ PostService(BOOLEAN)
    \/ \E b \in {SignupEvent(1, MailA, Alice), DeleteEvent(1)} : ExternalPublish(b)
    \/ \E uid \in PostAuthors : InsertPost(uid)
    \/ \E q \in posts : IncrementViews(q)
PostDocsSpec == Init /\ [][PostDocsNext]_vars

\* Both services, never failing, started on stores that already hold the
\* user alice (id 1) and her replicated shadow record.
StoredUser == [id |-> 1, email |-> MailA, name |-> Alice]
StoredInit ==
    /\ users = {StoredUser}
    /\ nextId = 2
    /\ created = {StoredUser}
    /\ reqs = [r \in Reqs |-> Idle]
    /\ res = NoRes
    /\ uConnection = 0
    /\ uChannel = 0
    /\ closedCh = {}
    /\ queueDeclared = FALSE
    /\ queue = <<>>
    /\ nmsg = 0
    /\ published = {}
    /\ sent = EmptyBag
    /\ nExternal = 0
    /\ cpc = "connect"
    /\ pConnection = FALSE
    /\ pChannel = FALSE
    /\ pending = {}
    /\ shadow = {StoredUser}
    /\ log = {}
    /\ posts = {}
StoredSpec == StoredInit /\ [][ReliableNext]_vars

\* Start-up of the Post Service with its failures, next to a User Service
\* that receives the signup of alice and deletes and never fails.
StartupNext == UserService({1}, {TRUE}) \/ PostService(BOOLEAN)
StartupSpec == Init /\ [][StartupNext]_vars

\* ------------------------------------------------------------------ claims
Handled == {l.mid : l \in log}
InQueue(mid) == \E i \in DOMAIN queue : queue[i].mid = mid
UserIds == {u.id : u \in users}
ShadowIds == {x.id : x \in shadow}
PublishPcs == {"publish", "connect", "createChannel", "assertQueue"}

\* Nothing is in flight: every request has been answered, every routed
\* message has been delivered and its handler call has finished, and the
\* consumer is still subscribed.
Quiescent ==
    /\ \A r \in Reqs : reqs[r].pc \in {"idle", "done"}
    /\ queue = <<>>
    /\ pending = {}
    /\ cpc = "subscribed"

\* Every user of the store has exactly one user_signup event with its id,
\* email and name among the events sent, and exactly one shadow record, with
\* the same id, email and name.
SignupsReplicated ==
    \A u \in users :
        /\ CopiesIn(SignupEvent(u.id, u.email, u.name), sent) = 1
        /\ {x \in shadow : x.id = u.id} = {u}

\* C1: with the stores and the broker available, the system always comes to
\* rest again, and whenever it is at rest every signup that created a record
\* has published exactly one user_signup event with the record's id, email
\* and name, and the shadow store holds exactly one record with that id,
\* email and name (for a user that was not deleted since).
C1_SignupReplicated ==
    /\ []<>Quiescent
    /\ [](Quiescent => SignupsReplicated)

\* C1 witness: at rest, two users signed up, each with one event sent and one
\* matching shadow record.
C1_Witness ==
    /\ Quiescent
    /\ Cardinality(users) = 2
    /\ SignupsReplicated

\* C2: every delete of an existing user has published a user_delete event
\* with that id, and once nothing is in flight the shadow store holds no
\* record with that id.
C2_DeleteReplicated ==
    Quiescent =>
        \A u \in created \ users :
            /\ CopiesIn(DeleteEvent(u.id), sent) >= 1
            /\ u.id \notin ShadowIds

\* C3: applying a user_signup event whose record the shadow store already
\* holds (the same event applied a second time) leaves exactly one record for
\* that id and raises no error.
C3_DuplicateSignupIdempotent ==
    [][\A m \in pending :
        (/\ Apply(m, TRUE)
         /\ m.body.event = "user_signup"
         /\ ShadowRecord(m.body) \in shadow)
        => (/\ {x \in shadow' : x.id = m.body.userId} = {ShadowRecord(m.body)}
            /\ Entry(m, "error", FALSE) \notin log')]_vars

\* C4: applying a user_delete event for an id with no shadow record leaves
\* the shadow store unchanged and logs no error.
C4_DeleteAbsentNoOp ==
    [][\A m \in pending :
        (/\ Apply(m, TRUE)
         /\ m.body.event = "user_delete"
         /\ m.body.userId \notin ShadowIds)
        => (/\ shadow' = shadow
            /\ {l \in log' : l.out = "error"} = {l \in log : l.out = "error"}
            /\ cpc' = cpc)]_vars

\* C4 witness: a user_delete event that matched no document has been handled
\* while the shadow store holds another user's record.
C4_Witness ==
    /\ shadow # {}
    /\ \E l \in log : l.event = "user_delete" /\ l.out = "deleted" /\ ~l.found

\* C5: delivering a malformed payload (unparseable body, no event field,
\* unknown tag) drops it: the message leaves the queue, the shadow store is
\* unchanged and the consumer stays subscribed.
C5_MalformedDropped ==
    [][\A alive \in BOOLEAN :
        (Deliver(alive) /\ Head(queue).body \in MalformedBodies)
        => (/\ cpc' = "subscribed"
            /\ queue' = Tail(queue)
            /\ shadow' = shadow
            /\ pending' = pending)]_vars

\* C6: a step that sends an event is taken by a request whose store mutation
\* has completed (the created record exists in the history of creates, the
\* deleted id is gone from the store); a request that leaves publishMessage
\* without having sent is answered 500 "Something went wrong" and the user
\* store keeps the mutation.
C6_PublishAfterMutation ==
    [][\A r \in Reqs :
        /\ (sent' # sent /\ reqs[r].pc # "done" /\ reqs'[r].pc = "done")
           => IF reqs[r].kind = "signup"
                THEN /\ reqs[r].uid \in {u.id : u \in created}
                     /\ \E u \in created : Message(r) = SignupEvent(u.id, u.email, u.name)
                ELSE reqs[r].arg \notin UserIds
        /\ (sent' = sent /\ reqs[r].pc \in PublishPcs /\ reqs'[r].pc = "done")
           => /\ res' = [op |-> reqs[r].kind, status |-> 500, msg |-> "Something went wrong"]
              /\ users' = users]_vars

\* C6 witness: a signup created its record, its publish failed, and the
\* record is still in the store with no event sent for it.
C6_Witness ==
    /\ \A r \in Reqs : reqs[r].pc \in {"idle", "done"}
    /\ res = [op |-> "signup", status |-> 500, msg |-> "Something went wrong"]
    /\ \E u \in users : CopiesIn(SignupEvent(u.id, u.email, u.name), sent) = 0

\* C7: a message is acknowledged (gone from the broker) only after its
\* handler call has finished, so every routed message is still held by the
\* broker or has been applied.
C7_AckAfterHandling == \A mid \in 1..nmsg : InQueue(mid) \/ mid \in Handled

\* C8: once every event the User Service sent has been delivered and
\* processed and nothing is in flight, the shadow store holds exactly the ids
\* of the user store.
C8_EventuallyConsistent == Quiescent => ShadowIds = UserIds

\* A request body that the validation rules of signup reject.
FailsValidation(b) ==
    \/ b.email.t # "string" \/ ~isValidEmail(b.email)
    \/ ~isValidName(b.name)
    \/ ~isValidPassword(b.password)

\* C9: a signup whose body fails validation is answered with a client error
\* (400) in the step it arrives, with the user store and the queue unchanged
\* and nothing sent.
C9_ValidationRejects ==
    [][\A r \in Reqs, p \in AllPayloads :
        (SignupRequest(r, p, TRUE) /\ FailsValidation(Payloads[p]))
        => (/\ res'.op = "signup" /\ res'.status = 400
            /\ reqs'[r] = Done
            /\ UNCHANGED <<users, created, sent, queue, nmsg>>)]_vars

\* C10: a delete request whose lookup finds no user with that id is answered
\* 404 "User not found" in that step and is finished: the user store is
\* unchanged and nothing is sent.
C10_DeleteUnknownNotFound ==
    [][\A r \in Reqs, id \in Ids :
        (DeleteRequest(r, id, TRUE) /\ id \notin UserIds)
        => (/\ res' = [op |-> "deleteUser", status |-> 404, msg |-> "User not found"]
            /\ reqs'[r] = Done
            /\ UNCHANGED <<users, created, sent, queue, nmsg>>)]_vars

\* C10 witness: the last response written is the 404 of a delete request,
\* in a run where a signup has put a user in the store.
C10_Witness ==
    /\ res = [op |-> "deleteUser", status |-> 404, msg |-> "User not found"]
    /\ users # {}

\* C11: a signup whose email lookup finds a record with that email, or whose
\* name lookup finds a record with that name, is answered 400 "User with this
\* email / name already exists" in that step and is finished: no record is
\* created and nothing is sent.
C11_ConflictRejected ==
    [][\A r \in Reqs :
        /\ \A p \in AllPayloads :
             (/\ Arrives(r)
              /\ \E u \in users : u.email = Payloads[p].email.s
              /\ Validate(Payloads[p]) = "ok"
              /\ SignupRequest(r, p, TRUE))
             => (/\ res' = [op |-> "signup", status |-> 400,
                            msg |-> "User with this email already exists"]
                 /\ reqs'[r] = Done
                 /\ UNCHANGED <<users, created, sent, queue, nmsg>>)
        /\ (/\ SignupFindName(r, TRUE)
            /\ \E u \in users : u.name = Payloads[reqs[r].arg].name.s)
           => (/\ res' = [op |-> "signup", status |-> 400,
                          msg |-> "User with this name already exists"]
               /\ reqs'[r] = Done
               /\ UNCHANGED <<users, created, sent, queue, nmsg>>)]_vars

\* C11 witness: a signup was refused for its name while the store holds the
\* one user that has the name, and no second record was ever created.
C11_Witness ==
    /\ res = [op |-> "signup", status |-> 400, msg |-> "User with this name already exists"]
    /\ Cardinality(created) = 1
    /\ users = created

C13_DeleteRemovesPosts ==
    [][\A m \in pending :
        (Apply(m, TRUE) /\ m.body.event = "user_delete")
        => \A q \in posts' : q.userId # m.body.userId]_vars

\* C14: publishMessage connects on the first publish (no cached channel: the
\* request goes into connectQueue), reuses a cached channel that is usable
\* (the message is sent on it in that step), and with a cached channel that is
\* closed sets out to establish a fresh one instead of failing.
C14_PublishReconnects ==
    [][\A r \in Reqs :
        Publish(r) =>
            /\ uChannel = 0 => reqs'[r].pc = "connect"
            /\ (uChannel # 0 /\ uChannel \notin closedCh)
               => (sent' = sent (+) SetToBag({Message(r)}) /\ uChannel' = uChannel)
            /\ (uChannel # 0 /\ uChannel \in closedCh)
               => reqs'[r].pc = "connect"]_vars

\* C15: a handler call whose store operation throws leaves its message
\* unacknowledged: the broker still holds it for redelivery.
C15_FailedApplyRedelivered ==
    [][\A m \in pending : Apply(m, FALSE) => InQueue(m.mid)']_vars

\* C16: a request whose connect sequence fails (it leaves connectQueue
\* answered 500 without having sent) leaves no channel of that sequence
\* cached: the next publish runs the connect sequence again.
C16_FailedConnectDisconnected ==
    [][\A r \in Reqs :
        (/\ reqs[r].pc \in {"connect", "createChannel", "assertQueue"}
         /\ reqs'[r].pc = "done"
         /\ sent' = sent)
        => uChannel' # r]_vars

\* C17: every step in which a request sends its message adds exactly one copy
\* of it to the messages sent and to the queue, and sends on a channel whose
\* assertQueue has resolved.
C17_ConcurrentFirstUse ==
    [][\A r \in Reqs :
        (sent' # sent /\ reqs[r].pc \in PublishPcs /\ reqs'[r].pc = "done")
        => (/\ sent' = sent (+) SetToBag({Message(r)})
            /\ queue' = Append(queue, [mid |-> nmsg + 1, body |-> Message(r)])
            /\ uChannel = r \/ reqs[uChannel].pc # "assertQueue")]_vars

\* C18: every shadow record has the id, email and name of a user_signup event
\* that was published to the queue; the shadow store changes only in a step
\* of a handler call, and no step of the Post Service's HTTP surface or of its
\* Post collection changes it.
C18_ShadowOnlyFromEvents ==
    /\ [](\A x \in shadow : \E b \in published :
            /\ b.event = "user_signup"
            /\ x.id = b.userId /\ x.email = b.email /\ x.name = b.name)
    /\ [][/\ shadow' # shadow => \E m \in pending, ok \in BOOLEAN : Apply(m, ok)
          /\ \A q \in posts : IncrementViews(q) => shadow' = shadow
          /\ \A uid \in PostAuthors : InsertPost(uid) => shadow' = shadow]_vars

\* C18 witness: the shadow store holds a record created from an event, and a
\* Post of that user has been viewed through the HTTP surface.
C18_Witness ==
    \E x \in shadow : \E q \in posts : q.userId = x.id /\ q.views > 0

\* C19: the subscription is registered only by the step that ends the
\* start-up sequence; a consumer whose start-up failed stays failed, and from
\* then on no message leaves the queue and no handler call runs, so the
\* shadow store never changes.
C19_SubscribesOnce ==
    [][/\ (cpc' = "subscribed" /\ cpc # "subscribed")
          => (cpc = "assertQueue" /\ ConsumerAssertQueue(TRUE))
       /\ cpc = "failed"
          => (/\ cpc' = "failed"
              /\ UNCHANGED <<pending, shadow, log>>
              /\ Len(queue') >= Len(queue))]_vars

\* C19 witness: the start-up failed, a signup has since published its event,
\* and the event sits in the queue with no shadow record made from it.
C19_Witness ==
    /\ cpc = "failed"
    /\ \E u \in users : \E i \in DOMAIN queue :
          queue[i].body = SignupEvent(u.id, u.email, u.name)
    /\ shadow = {}
    /\ \A r \in Reqs : reqs[r].pc \in {"idle", "done"}

\* C20: the user store never holds two records with the same email or the
\* same name.
C20_UniqueEmailAndName ==
    \A u, v \in users : u # v => (u.email # v.email /\ u.name # v.name)

\* C21: however delete requests for one user id interleave, at most one
\* user_delete event is sent for that id.
C21_OneDeleteEvent ==
    \A id \in Ids : CopiesIn(DeleteEvent(id), sent) <= 1

\* C22: when the user_signup event of an id was delivered first and the
\* user_delete event of the same id second, both store operations succeeded
\* and nothing else is in flight, the shadow store holds no record of that id.
C22_AppliedInDeliveryOrder ==
    \A l1, l2 \in log :
        (/\ l1.event = "user_signup" /\ l1.out = "created"
         /\ l2.event = "user_delete" /\ l2.out = "deleted"
         /\ l1.userId = l2.userId
         /\ l1.mid = 1 /\ l2.mid = 2 /\ nmsg = 2
         /\ queue = <<>> /\ pending = {})
        => l1.userId \notin ShadowIds

\* C23: the callback acknowledges the message it is invoked with, whatever
\* the body: after the delivery step the broker no longer holds the message.
C23_AckedExactlyOnce ==
    [][\A alive \in BOOLEAN :
        Deliver(alive) => ~(\E i \in DOMAIN queue' : queue'[i].mid = Head(queue).mid)]_vars

====
